---- MODULE Spec2Model ----
(***************************************************************************)
(* CloudSync: the synchronization engine of the extension.                 *)
(*                                                                         *)
(* The React component App keeps one state bag (config, logs, isSyncing,   *)
(* lastSyncTime).  Its handlers performUpload, performDownload and         *)
(* handleConfigChange are closures over the state of the render that       *)
(* created them; every setState uses a functional updater, so updates are  *)
(* applied to the latest state while reads of `state.x` inside a handler   *)
(* see the state captured when the handler was invoked.                    *)
(*                                                                         *)
(* Each action below is one run of a handler (or of an awaited             *)
(* continuation) from one suspension point to the next.                    *)
(***************************************************************************)
EXTENDS Integers, Sequences, FiniteSets, TLC

(***************************************************************************)
(* Bounds of the model.                                                    *)
(***************************************************************************)
MaxEvents == 2           \* handler invocations: performUpload, performDownload,
                         \* handleConfigChange
MaxItems == 1            \* length of a list an accessor returns
MaxDirectCalls == 2      \* provider calls made by a direct caller
MaxLogCalls == 3         \* addLog calls made on a log of a given length

(***************************************************************************)
(* The application state.                                                  *)
(***************************************************************************)
VARIABLES
    isChromeAvailable,  \* chromeAdapter: the host extension API is present
    browser,            \* the browser's bookmarks, extensions and history
    state,              \* AppState: config, logs, isSyncing, lastSyncTime
    rendered,           \* the config and isSyncing the handlers of the last render see
    activeTab,          \* the selected tab
    insights,           \* the advisory insights: <<>> (null) or <<result>>
    store,              \* the Config Store: <<>> (nothing saved) or <<config>>
    saves,              \* chrome.storage.local.set calls not yet completed, oldest first
    loading,            \* the startup loadConfigFromLocal has not delivered yet
    ops,                \* performUpload / performDownload invocations, by slot
    analyses,           \* analyzeBrowsingTrends calls not yet settled
    remote,             \* what the Gist and WebDAV backends store
    clock,              \* the wall clock, advanced when the Snapshot is stamped
    budget,             \* handler invocations made so far
    direct              \* provider calls made by a direct caller

vars == <<isChromeAvailable, browser, state, rendered, activeTab, insights, store, saves,
          loading, ops, analyses, remote, clock, budget, direct>>

(***************************************************************************)
(* Values.                                                                 *)
(***************************************************************************)
Undefined == "undefined"            \* an absent optional string field
NoUrl == <<"undefined">>            \* an absent webdavUrl (URLs are character sequences)
NoTime == "null"                    \* lastSyncTime: null

Falsy(v) == v = Undefined \/ v = ""
FalsyUrl(u) == u = NoUrl \/ u = <<>>

GIST == "GIST"
WEBDAV == "WEBDAV"

GistIds == {"g1", "g2", "g3", "g4", "g5"}   \* identifiers of the Gist backend
SyncFile == "sync_data.json"
BackupFileName == <<"cloudsync_pro_backup.json">>

\* The config of useState's initial value.
DefaultConfig ==
    [provider |-> GIST, gistToken |-> Undefined, gistId |-> Undefined,
     webdavUrl |-> NoUrl, webdavUser |-> Undefined, webdavPass |-> Undefined,
     syncBookmarks |-> TRUE, syncExtensions |-> TRUE, syncHistory |-> TRUE,
     autoSyncInterval |-> 60]

\* { ...cfg, ...patch } for a partial config `patch`.
Spread(cfg, patch) ==
    [f \in DOMAIN cfg |-> IF f \in DOMAIN patch THEN patch[f] ELSE cfg[f]]

\* { ...cfg, ...saved } for a stored config: a key that is absent from the
\* stored object (an optional field never set) does not override.
IsAbsent(f, v) ==
    CASE f = "webdavUrl" -> v = NoUrl
      [] f \in {"gistToken", "gistId", "webdavUser", "webdavPass"} -> v = Undefined
      [] OTHER -> FALSE

SpreadSaved(cfg, saved) ==
    [f \in DOMAIN cfg |-> IF IsAbsent(f, saved[f]) THEN cfg[f] ELSE saved[f]]

(***************************************************************************)
(* JSON text is a sequence of tokens.  A string value s is the two tokens  *)
(* "str", s; an object key k is "key", k; "nl" is the white space that     *)
(* pretty printing inserts.                                                *)
(***************************************************************************)
RECURSIVE StringifyElems(_, _, _)
StringifyElems(xs, i, indent) ==
    IF i > Len(xs) THEN <<>>
    ELSE (IF indent THEN <<"nl">> ELSE <<>>) \o <<"str", xs[i]>>
         \o (IF i < Len(xs) THEN <<",">> ELSE <<>>)
         \o StringifyElems(xs, i + 1, indent)

\* JSON.stringify of an array of records; an empty array is "[]" with or
\* without indentation.
StringifyArray(xs, indent) ==
    IF Len(xs) = 0 THEN <<"[", "]">>
    ELSE <<"[">> \o StringifyElems(xs, 1, indent)
         \o (IF indent THEN <<"nl">> ELSE <<>>) \o <<"]">>

StringifyMember(k, v, indent) ==
    (IF indent THEN <<"nl">> ELSE <<>>) \o <<"key", k, ":">> \o v

\* JSON.stringify(data) / JSON.stringify(data, null, 2) of a SyncData object:
\* own enumerable keys in insertion order.
JSONStringify(data, indent) ==
    <<"{">>
    \o StringifyMember("lastUpdated", <<"str", data.lastUpdated>>, indent) \o <<",">>
    \o StringifyMember("version", <<"str", data.version>>, indent) \o <<",">>
    \o StringifyMember("bookmarks", StringifyArray(data.bookmarks, indent), indent) \o <<",">>
    \o StringifyMember("extensions", StringifyArray(data.extensions, indent), indent) \o <<",">>
    \o StringifyMember("history", StringifyArray(data.history, indent), indent)
    \o (IF indent THEN <<"nl">> ELSE <<>>) \o <<"}">>

ParseFail == [ok |-> FALSE, val |-> <<>>, next |-> 0]

Tok(t, i) == IF i <= Len(t) THEN t[i] ELSE "eof"

RECURSIVE ParseElems(_, _, _)
ParseElems(t, i, acc) ==
    IF Tok(t, i) # "str" \/ i + 1 > Len(t) THEN ParseFail
    ELSE LET acc2 == Append(acc, t[i + 1]) IN
         IF Tok(t, i + 2) = "," THEN ParseElems(t, i + 3, acc2)
         ELSE IF Tok(t, i + 2) = "]" THEN [ok |-> TRUE, val |-> acc2, next |-> i + 3]
         ELSE ParseFail

ParseValue(t, i) ==
    IF Tok(t, i) = "str" /\ i + 1 <= Len(t)
    THEN [ok |-> TRUE, val |-> t[i + 1], next |-> i + 2]
    ELSE IF Tok(t, i) = "["
    THEN IF Tok(t, i + 1) = "]" THEN [ok |-> TRUE, val |-> <<>>, next |-> i + 2]
         ELSE ParseElems(t, i + 1, <<>>)
    ELSE ParseFail

RECURSIVE ParseMembers(_, _, _)
ParseMembers(t, i, acc) ==
    IF Tok(t, i) # "key" \/ Tok(t, i + 2) # ":" THEN ParseFail
    ELSE LET v == ParseValue(t, i + 3) IN
         IF ~v.ok THEN ParseFail
         ELSE LET k == t[i + 1]
                  acc2 == [f \in DOMAIN acc \cup {k} |-> IF f = k THEN v.val ELSE acc[f]]
              IN IF Tok(t, v.next) = "," THEN ParseMembers(t, v.next + 1, acc2)
                 ELSE IF Tok(t, v.next) = "}" /\ v.next = Len(t)
                 THEN [ok |-> TRUE, val |-> acc2, next |-> v.next + 1]
                 ELSE ParseFail

\* JSON.parse: [ok |-> FALSE] stands for the SyntaxError it throws.
JSONParse(text) ==
    LET t == SelectSeq(text, LAMBDA x : x # "nl") IN
    IF Tok(t, 1) # "{" THEN ParseFail
    ELSE IF Tok(t, 2) = "}" /\ Len(t) = 2 THEN [ok |-> TRUE, val |-> <<>>, next |-> 3]
    ELSE ParseMembers(t, 2, <<>>)

(***************************************************************************)
(* Providers.  A provider method runs synchronously up to its fetch, so    *)
(* its first half yields either a thrown error or the request it issues;   *)
(* its second half turns the response into a return value or an error.     *)
(***************************************************************************)
Thrown(m) == [throws |-> TRUE, msg |-> m, req |-> <<>>]
Issued(r) == [throws |-> FALSE, msg |-> "", req |-> <<r>>]

\* GistPayload when the history collection is left out of the content.
GistPayloadDropsHistory(data) ==
    [description |-> "CloudSync Pro - Browser Data", public |-> FALSE,
     files |-> [f \in {SyncFile} |-> JSONStringify([data EXCEPT !.history = <<>>], TRUE)]]

GistPayload(data) ==
    [description |-> "CloudSync Pro - Browser Data", public |-> FALSE,
     files |-> [f \in {SyncFile} |-> JSONStringify(data, TRUE)]]

\* GistUploadMethod when every upload creates.
GistUploadMethodAlwaysPost(config) == "POST"

GistUploadMethod(config) == IF Falsy(config.gistId) THEN "POST" ELSE "PATCH"

GistUploadUrl(config) ==
    IF Falsy(config.gistId) THEN <<"api.github.com", "gists">>
    ELSE <<"api.github.com", "gists", config.gistId>>

\* GistProvider.upload, up to and including the fetch.
GistUploadStart(config, data) ==
    IF Falsy(config.gistToken) THEN Thrown("Gist Token is required")
    ELSE Issued([method |-> GistUploadMethod(config), url |-> GistUploadUrl(config),
                 auth |-> <<"token", config.gistToken>>, body |-> <<GistPayload(data)>>])

\* GistDownloadStart when only the token is validated.
GistDownloadStartTokenOnly(config) ==
    IF Falsy(config.gistToken)
    THEN Thrown("Gist Token and ID are required for download")
    ELSE Issued([method |-> "GET", url |-> <<"api.github.com", "gists", config.gistId>>,
                 auth |-> <<"token", config.gistToken>>, body |-> <<>>])

\* GistProvider.download, up to and including the fetch.
GistDownloadStart(config) ==
    IF Falsy(config.gistToken) \/ Falsy(config.gistId)
    THEN Thrown("Gist Token and ID are required for download")
    ELSE Issued([method |-> "GET", url |-> <<"api.github.com", "gists", config.gistId>>,
                 auth |-> <<"token", config.gistToken>>, body |-> <<>>])

\* WebDAVProvider.getUrl
GetUrl(config) ==
    LET u == config.webdavUrl IN
    IF Len(u) > 0 /\ u[Len(u)] = "/" THEN u \o BackupFileName
    ELSE u \o <<"/">> \o BackupFileName

\* WebDAVProvider.getHeaders: btoa(`${user}:${pass}`)
GetHeaders(config) == <<"Basic", config.webdavUser, ":", config.webdavPass>>

\* WebDAVUploadStart when each call writes a backup file of its own.
WebDAVUploadStartNewFile(config, data) ==
    IF FalsyUrl(config.webdavUrl) THEN Thrown("WebDAV URL is required")
    ELSE Issued([method |-> "PUT", url |-> GetUrl(config) \o <<ToString(Len(direct.done))>>,
                 auth |-> GetHeaders(config), body |-> <<JSONStringify(data, FALSE)>>])

WebDAVUploadStart(config, data) ==
    IF FalsyUrl(config.webdavUrl) THEN Thrown("WebDAV URL is required")
    ELSE Issued([method |-> "PUT", url |-> GetUrl(config), auth |-> GetHeaders(config),
                 body |-> <<JSONStringify(data, FALSE)>>])

\* WebDAVDownloadStart without the validation of the URL.
WebDAVDownloadStartUnchecked(config) ==
    Issued([method |-> "GET", url |-> GetUrl(config), auth |-> GetHeaders(config),
            body |-> <<>>])

WebDAVDownloadStart(config) ==
    IF FalsyUrl(config.webdavUrl) THEN Thrown("WebDAV URL is required")
    ELSE Issued([method |-> "GET", url |-> GetUrl(config), auth |-> GetHeaders(config),
                 body |-> <<>>])

(***************************************************************************)
(* Responses.  kind: "ok"; "msg" (non-success, JSON body with a message);  *)
(* "nomsg" (non-success, JSON body without one); "nojson" (non-success,    *)
(* body is not JSON); "neterr" (fetch itself rejects).                     *)
(***************************************************************************)
FailKinds == {"msg", "nomsg", "nojson", "neterr"}
AppFailKinds == {"msg", "neterr"}       \* the failures the application runs draw from

Response(k, id, files, text) == [kind |-> k, id |-> id, files |-> files, text |-> text]
FailResponse(k) == Response(k, Undefined, <<>>, <<>>)

Returned(v) == [throws |-> FALSE, msg |-> "", value |-> v]
Failed(m) == [throws |-> TRUE, msg |-> m, value |-> <<>>]

\* GistProvider.upload, after the fetch settled: returns <<result.id>>.
GistUploadFinish(resp) ==
    CASE resp.kind = "neterr" -> Failed("Failed to fetch")
      [] resp.kind = "nojson" -> Failed("Unexpected token")
      [] resp.kind = "msg"    -> Failed("Bad credentials")
      [] resp.kind = "nomsg"  -> Failed("Failed to upload to Gist")
      [] OTHER                -> Returned(<<resp.id>>)

\* GistProvider.download, after the fetch settled: returns <<data>>.
GistDownloadFinish(resp) ==
    CASE resp.kind = "neterr" -> Failed("Failed to fetch")
      [] resp.kind # "ok"     -> Failed("Failed to download from Gist")
      [] SyncFile \notin DOMAIN resp.files -> Failed("Sync data file not found in Gist")
      [] resp.files[SyncFile] = <<>> -> Failed("Sync data file not found in Gist")
      [] OTHER ->
           LET parsed == JSONParse(resp.files[SyncFile]) IN
           IF parsed.ok THEN Returned(<<parsed.val>>) ELSE Failed("Unexpected token")

\* WebDAVProvider.upload, after the fetch settled: returns nothing.
WebDAVUploadFinish(resp) ==
    CASE resp.kind = "neterr" -> Failed("Failed to fetch")
      [] resp.kind # "ok"     -> Failed("WebDAV Upload Failed: Error")
      [] OTHER                -> Returned(<<>>)

\* WebDAVProvider.download, after the fetch settled: response.json().
WebDAVDownloadFinish(resp) ==
    CASE resp.kind = "neterr" -> Failed("Failed to fetch")
      [] resp.kind # "ok"     -> Failed("WebDAV Download Failed: Error")
      [] OTHER ->
           LET parsed == JSONParse(resp.text) IN
           IF parsed.ok THEN Returned(<<parsed.val>>) ELSE Failed("Unexpected token")

\* getProvider when the switch falls back to the WebDAV provider.
GetProviderDefaultsToWebDAV(type) ==
    IF type = GIST THEN [throws |-> FALSE, msg |-> "", prov |-> GIST]
    ELSE [throws |-> FALSE, msg |-> "", prov |-> WEBDAV]

\* getProvider: the backend for a provider type, or the error it throws.
GetProvider(type) ==
    CASE type = GIST   -> [throws |-> FALSE, msg |-> "", prov |-> GIST]
      [] type = WEBDAV -> [throws |-> FALSE, msg |-> "", prov |-> WEBDAV]
      [] OTHER         -> [throws |-> TRUE, msg |-> "Provider not implemented", prov |-> type]

ProviderUploadStart(prov, config, data) ==
    IF prov = GIST THEN GistUploadStart(config, data) ELSE WebDAVUploadStart(config, data)

ProviderDownloadStart(prov, config) ==
    IF prov = GIST THEN GistDownloadStart(config) ELSE WebDAVDownloadStart(config)

ProviderUploadFinish(prov, resp) ==
    IF prov = GIST THEN GistUploadFinish(resp) ELSE WebDAVUploadFinish(resp)

ProviderDownloadFinish(prov, resp) ==
    IF prov = GIST THEN GistDownloadFinish(resp) ELSE WebDAVDownloadFinish(resp)

(***************************************************************************)
(* The remote side: what the two backends answer and how a request changes *)
(* what they store.  remote.gists[id] is <<>> (no such gist) or <<files>>, *)
(* files a function from file names to contents; remote.dav maps the URLs  *)
(* that hold a file to its content.                                        *)
(***************************************************************************)
\* The identifier a create hands out: the first one not in use (none when
\* the backend's identifiers are used up).
FreshIds(rem) ==
    LET free == {g \in GistIds : rem.gists[g] = <<>>}
        order == <<"g1", "g2", "g3", "g4", "g5">>
    IN {g \in free : \A h \in free :
            (CHOOSE i \in 1..5 : order[i] = g) <= (CHOOSE i \in 1..5 : order[i] = h)}

PutFile(files, name, content) ==
    [f \in DOMAIN files \cup {name} |-> IF f = name THEN content ELSE files[f]]

PutDav(dav, url, content) ==
    [u \in DOMAIN dav \cup {url} |-> IF u = url THEN content ELSE dav[u]]

\* The answers the remote side can give to `req`, each with the remote
\* state it leaves: a set of <<response, remote>>.
Serve(req, rem) ==
    {<<FailResponse(k), rem>> : k \in FailKinds}
    \cup
    (CASE req.method = "POST" /\ req.url = <<"api.github.com", "gists">> ->
            {<<Response("ok", g, req.body[1].files, <<>>),
               [rem EXCEPT !.gists[g] = <<req.body[1].files>>]>> : g \in FreshIds(rem)}
       [] req.method = "PATCH" /\ Len(req.url) = 3 /\ req.url[3] \in GistIds ->
            LET g == req.url[3] IN
            IF rem.gists[g] = <<>> THEN {}
            ELSE LET files == PutFile(rem.gists[g][1], SyncFile, req.body[1].files[SyncFile])
                 IN {<<Response("ok", g, files, <<>>), [rem EXCEPT !.gists[g] = <<files>>]>>}
       [] req.method = "GET" /\ Len(req.url) = 3 /\ req.url[1] = "api.github.com"
          /\ req.url[3] \in GistIds ->
            LET g == req.url[3] IN
            IF rem.gists[g] = <<>> THEN {}
            ELSE {<<Response("ok", g, rem.gists[g][1], <<>>), rem>>}
       [] req.method = "PUT" ->
            {<<Response("ok", Undefined, <<>>, <<>>),
               [rem EXCEPT !.dav = PutDav(@, req.url, req.body[1])]>>}
       [] req.method = "GET" /\ req.url \in DOMAIN rem.dav ->
            {<<Response("ok", Undefined, <<>>, rem.dav[req.url]), rem>>}
       [] OTHER -> {})

LogCapacity == 50
MaxInFlight == 2                        \* slots for operations in flight
Slots == 1..MaxInFlight
\* The placeholder records the accessors return without the host API.
MockBookmark == "mock"
MockExtension == "mock-ext"
MockHistory == "mock-hist"

ISOString(c) == "T" \o ToString(c)      \* new Date().toISOString()
LocaleString(c) == "L" \o ToString(c)   \* new Date().toLocaleString()

\* new Date(iso).toLocaleString()
LocaleOfISO(s) ==
    IF \E c \in 0..(MaxEvents + 1) : ISOString(c) = s
    THEN LocaleString(CHOOSE c \in 0..(MaxEvents + 1) : ISOString(c) = s)
    ELSE "Invalid Date"

Min(a, b) == IF a < b THEN a ELSE b

\* addLog without the slice: the log keeps every entry.
AddLogUnbounded(st, message, type) ==
    [st EXCEPT !.logs = <<[type |-> type, message |-> message]>> \o st.logs]

\* addLog: prepend, keep the first LogCapacity entries.
AddLog(st, message, type) ==
    LET all == <<[type |-> type, message |-> message]>> \o st.logs
    IN [st EXCEPT !.logs = SubSeq(all, 1, Min(Len(all), LogCapacity))]

View(st) == [config |-> st.config, isSyncing |-> st.isSyncing]

\* One invocation of performUpload / performDownload: its position (pc), the
\* config its closure captured, its locals, and a record of what it did
\* (id: which invocation; accessed, calls: accessors called and requests
\* issued; error: the message it caught; touched: the config was written by
\* handleConfigChange or the startup load while it was in flight).
IdleOp ==
    [pc |-> "idle", kind |-> "none", id |-> 0, error |-> "", cfg |-> DefaultConfig,
     bookmarks |-> <<>>, extensions |-> <<>>, history |-> <<>>,
     data |-> <<>>, req |-> <<>>, accessed |-> {}, calls |-> <<>>,
     outcome |-> "none", result |-> <<>>, analysis |-> FALSE, touched |-> FALSE]

InFlight(p) == ops[p].pc \notin {"idle", "done"}
AnyInFlight == \E p \in Slots : InFlight(p)

(***************************************************************************)
(* A handler run works on a bundle of the values it may change.            *)
(***************************************************************************)
Bundle(p, op) ==
    [p |-> p, op |-> op, st |-> state, store |-> store, saves |-> saves,
     clock |-> clock, analyses |-> analyses]

Commit(w) ==
    /\ state' = w.st
    /\ ops' = [ops EXCEPT ![w.p] = w.op]
    /\ store' = w.store
    /\ saves' = w.saves
    /\ clock' = w.clock
    /\ analyses' = w.analyses

\* finally { setState(prev => ({ ...prev, isSyncing: false })) }
Finally(w) == [w EXCEPT !.st.isSyncing = FALSE, !.op.pc = "done", !.op.req = <<>>]

\* UploadCatch when a failed upload stamps the last-sync time as well.
UploadCatchStampsTime(w, msg) ==
    Finally([w EXCEPT !.st = AddLog([@ EXCEPT !.lastSyncTime = LocaleString(w.clock)],
                                    "Upload failed: " \o msg, "error"),
                      !.op.outcome = "error", !.op.error = msg])

\* UploadCatch when the busy flag is cleared on the success path only.
UploadCatchKeepsBusy(w, msg) ==
    [w EXCEPT !.st = AddLog(@, "Upload failed: " \o msg, "error"),
              !.op.outcome = "error", !.op.pc = "done", !.op.req = <<>>]

\* catch (error) { addLog(`Upload failed: ${error.message}`, 'error') }
UploadCatch(w, msg) ==
    Finally([w EXCEPT !.st = AddLog(@, "Upload failed: " \o msg, "error"),
                      !.op.outcome = "error", !.op.error = msg])

\* UploadSucceed when the trend analysis is started whatever the history holds.
UploadSucceedAlwaysAnalyses(w) ==
    Finally([w EXCEPT !.st = AddLog([@ EXCEPT !.lastSyncTime = LocaleString(w.clock)],
                                    "Upload successful!", "success"),
                      !.op.outcome = "success",
                      !.op.analysis = TRUE,
                      !.analyses = @ + 1])

\* performUpload from the last-sync timestamp to the end.
UploadSucceed(w) ==
    Finally([w EXCEPT !.st = AddLog([@ EXCEPT !.lastSyncTime = LocaleString(w.clock)],
                                    "Upload successful!", "success"),
                      !.op.outcome = "success",
                      !.op.analysis = Len(w.op.history) > 0,
                      !.analyses = IF Len(w.op.history) > 0 THEN @ + 1 ELSE @])

\* UploadAfterProvider when the save of the updated config is started but not
\* awaited: success is reported while the save is still pending.
UploadAfterProviderNoAwait(w, value, saveThrows) ==
    LET cfg == w.op.cfg
        w1 == [w EXCEPT !.op.result = value]
    IN IF cfg.provider = GIST /\ value # <<>> /\ ~Falsy(value[1]) /\ value[1] # cfg.gistId
       THEN LET updatedConfig == [cfg EXCEPT !.gistId = value[1]]
                w2 == [w1 EXCEPT !.st.config = updatedConfig]
            IN IF isChromeAvailable
               THEN UploadSucceed([w2 EXCEPT !.saves = Append(@, [config |-> updatedConfig,
                                                                  by |-> 0])])
               ELSE UploadSucceed([w2 EXCEPT !.store = IF saveThrows THEN @
                                                       ELSE <<updatedConfig>>])
       ELSE UploadSucceed(w1)

\* UploadAfterProvider without the write-back of the returned identifier.
UploadAfterProviderNoWriteBack(w, value, saveThrows) ==
    UploadSucceed([w EXCEPT !.op.result = value])

\* performUpload after provider.upload returned `value` (<<>>: nothing,
\* <<id>>: an identifier): the gistId write-back.
UploadAfterProvider(w, value, saveThrows) ==
    LET cfg == w.op.cfg
        w1 == [w EXCEPT !.op.result = value]
    IN IF cfg.provider = GIST /\ value # <<>> /\ ~Falsy(value[1]) /\ value[1] # cfg.gistId
       THEN LET updatedConfig == [cfg EXCEPT !.gistId = value[1]]
                w2 == [w1 EXCEPT !.st.config = updatedConfig]
            IN IF isChromeAvailable
               THEN [w2 EXCEPT !.saves = Append(@, [config |-> updatedConfig, by |-> w.p]),
                               !.op.pc = "save", !.op.req = <<>>]
               ELSE IF saveThrows THEN UploadCatch(w2, "QuotaExceededError")
               ELSE UploadSucceed([w2 EXCEPT !.store = <<updatedConfig>>])
       ELSE UploadSucceed(w1)

\* performUpload from the Snapshot to the provider's fetch.
UploadCallProvider(w) ==
    LET cfg == w.op.cfg
        syncData == [lastUpdated |-> ISOString(w.clock + 1), version |-> "1.0.0",
                     bookmarks |-> w.op.bookmarks, extensions |-> w.op.extensions,
                     history |-> w.op.history]
        w1 == [w EXCEPT !.clock = @ + 1, !.op.data = <<syncData>>]
        provider == GetProvider(cfg.provider)
        started == ProviderUploadStart(provider.prov, cfg, syncData)
    IN IF provider.throws THEN UploadCatch(w1, provider.msg)
       ELSE IF started.throws THEN UploadCatch(w1, started.msg)
       ELSE [w1 EXCEPT !.op.pc = "fetch", !.op.req = started.req,
                       !.op.calls = Append(@, started.req[1])]

\* UploadHistory when the history is fetched whatever the flag says.
UploadHistoryIgnoresFlag(w) ==
    LET w1 == [w EXCEPT !.op.accessed = @ \cup {"getHistory"}] IN
    IF isChromeAvailable THEN [w1 EXCEPT !.op.pc = "getHistory"]
    ELSE UploadCallProvider([w1 EXCEPT !.op.history = <<MockHistory>>])

\* state.config.syncHistory ? await getHistory() : []
UploadHistory(w) ==
    IF ~w.op.cfg.syncHistory THEN UploadCallProvider([w EXCEPT !.op.history = <<>>])
    ELSE LET w1 == [w EXCEPT !.op.accessed = @ \cup {"getHistory"}] IN
         IF isChromeAvailable THEN [w1 EXCEPT !.op.pc = "getHistory"]
         ELSE UploadCallProvider([w1 EXCEPT !.op.history = <<MockHistory>>])

\* state.config.syncExtensions ? await getExtensions() : []
UploadExtensions(w) ==
    IF ~w.op.cfg.syncExtensions THEN UploadHistory([w EXCEPT !.op.extensions = <<>>])
    ELSE LET w1 == [w EXCEPT !.op.accessed = @ \cup {"getExtensions"}] IN
         IF isChromeAvailable THEN [w1 EXCEPT !.op.pc = "getExtensions"]
         ELSE UploadHistory([w1 EXCEPT !.op.extensions = <<MockExtension>>])

\* state.config.syncBookmarks ? await getBookmarks() : []
UploadBookmarks(w) ==
    IF ~w.op.cfg.syncBookmarks THEN UploadExtensions([w EXCEPT !.op.bookmarks = <<>>])
    ELSE LET w1 == [w EXCEPT !.op.accessed = @ \cup {"getBookmarks"}] IN
         IF isChromeAvailable THEN [w1 EXCEPT !.op.pc = "getBookmarks"]
         ELSE UploadExtensions([w1 EXCEPT !.op.bookmarks = <<MockBookmark>>])

\* performUpload from setting the busy flag to the first suspension.
UploadStart(w) ==
    UploadBookmarks([w EXCEPT !.st = AddLog([@ EXCEPT !.isSyncing = TRUE],
                                            "Initiating manual upload...", "info")])

\* UploadPreCheck when performUpload leaves the validation to the provider.
UploadPreCheckNone(cfg) == ""

\* The pre-check of performUpload: the message it logs, or "" when it passes.
UploadPreCheck(cfg) ==
    IF cfg.provider = GIST /\ Falsy(cfg.gistToken)
    THEN "Error: Gist Token is missing. Go to Settings."
    ELSE IF cfg.provider = WEBDAV /\ FalsyUrl(cfg.webdavUrl)
    THEN "Error: WebDAV URL is missing. Go to Settings."
    ELSE ""

\* DownloadCatch when performDownload has try / finally but no catch: the busy
\* flag is cleared, nothing is logged and the error leaves the function.
DownloadCatchRethrows(w, msg) ==
    Finally([w EXCEPT !.op.outcome = "thrown", !.op.error = msg])

\* catch (error) { addLog(`Download failed: ${error.message}`, 'error') }
DownloadCatch(w, msg) ==
    Finally([w EXCEPT !.st = AddLog(@, "Download failed: " \o msg, "error"),
                      !.op.outcome = "error", !.op.error = msg])

\* DownloadSucceed when the downloaded Snapshot is taken as the new sync point.
DownloadSucceedApplies(w, data) ==
    LET when == IF "lastUpdated" \in DOMAIN data THEN LocaleOfISO(data.lastUpdated)
                ELSE "Invalid Date"
        st1 == AddLog([w.st EXCEPT !.lastSyncTime = when],
                      "Download successful! Last Update: " \o when, "success")
    IN Finally([w EXCEPT !.st = st1, !.op.outcome = "success", !.op.data = <<data>>])

\* performDownload after provider.download returned `data`.
DownloadSucceed(w, data) ==
    LET when == IF "lastUpdated" \in DOMAIN data THEN LocaleOfISO(data.lastUpdated)
                ELSE "Invalid Date"
        st1 == AddLog(w.st, "Download successful! Last Update: " \o when, "success")
        st2 == AddLog(st1, "Ready to restore. (Auto-restore skipped for safety).", "info")
    IN Finally([w EXCEPT !.st = st2, !.op.outcome = "success", !.op.data = <<data>>])

\* performDownload from setting the busy flag to the provider's fetch.
DownloadStart(w) ==
    LET cfg == w.op.cfg
        w1 == [w EXCEPT !.st = AddLog([@ EXCEPT !.isSyncing = TRUE],
                                      "Initiating manual download...", "info")]
        provider == GetProvider(cfg.provider)
        started == ProviderDownloadStart(provider.prov, cfg)
    IN IF provider.throws THEN DownloadCatch(w1, provider.msg)
       ELSE IF started.throws THEN DownloadCatch(w1, started.msg)
       ELSE [w1 EXCEPT !.op.pc = "fetch", !.op.req = started.req,
                       !.op.calls = Append(@, started.req[1])]

(***************************************************************************)
(* Initial states.                                                         *)
(***************************************************************************)
WithFields(patch) == Spread(DefaultConfig, patch)

\* Configs an earlier session may have left in the Config Store.
\* A provider value this build does not know (a config saved by another build).
UnknownProvider == "DROPBOX"

SavedConfigs ==
    { WithFields([gistToken |-> "t"]),
      WithFields([provider |-> UnknownProvider]),
      WithFields([gistToken |-> "t", gistId |-> "g1"]),
      WithFields([provider |-> WEBDAV, webdavUrl |-> <<"h">>, syncBookmarks |-> FALSE,
                  syncExtensions |-> FALSE, syncHistory |-> FALSE]) }

\* n records of one kind.
Records(x, n) == [i \in 1..n |-> x \o ToString(i)]

\* The browser holds no data, or MaxItems records of each kind.
BrowserData ==
    { [bookmarks |-> Records("bookmark", n), extensions |-> Records("extension", n),
       history |-> Records("visit", n)] : n \in {0, MaxItems} }

\* Without the host API there is no browser data to read.
NoBrowserData == [bookmarks |-> <<>>, extensions |-> <<>>, history |-> <<>>]

EarlierSnapshot ==
    [lastUpdated |-> ISOString(0), version |-> "1.0.0",
     bookmarks |-> <<"bookmark1">>, extensions |-> <<>>, history |-> <<"visit1">>]

EmptyRemote == [gists |-> [g \in GistIds |-> <<>>], dav |-> <<>>]

\* What the backends may hold at startup: nothing, or what an earlier
\* session uploaded.
InitRemotes ==
    { [gists |-> [g \in GistIds |->
                    IF g = "g1"
                    THEN <<[f \in {SyncFile} |-> JSONStringify(EarlierSnapshot, TRUE)]>>
                    ELSE <<>>],
       dav |-> PutDav(<<>>, <<"h", "/">> \o BackupFileName,
                      JSONStringify(EarlierSnapshot, FALSE))] }

InitialState ==
    [config |-> DefaultConfig, logs |-> <<>>, isSyncing |-> FALSE, lastSyncTime |-> NoTime]

\* The continuation of the startup effect once loadConfigFromLocal delivered.
LoadedState(st, saved) ==
    IF saved # <<>> THEN [st EXCEPT !.config = SpreadSaved(@, saved[1])]
    ELSE AddLog(st, "Welcome! Please configure your sync settings first.", "info")

LoadedTab(tab, saved) == IF saved # <<>> THEN tab ELSE "settings"

\* The direct caller: the call in progress and the calls completed.
NoCall == [pc |-> "idle", method |-> "none", prov |-> "none", config |-> DefaultConfig,
           data |-> <<>>, req |-> <<>>, calls |-> <<>>, resp |-> "none"]
NoDirect == [call |-> NoCall, done |-> <<>>]

\* Without the host API the startup load settles before any event is handled.
Init ==
    /\ isChromeAvailable \in BOOLEAN
    /\ browser \in IF isChromeAvailable THEN BrowserData ELSE {NoBrowserData}
    /\ store \in {<<>>} \cup {<<c>> : c \in SavedConfigs}
    /\ remote \in InitRemotes
    /\ loading = isChromeAvailable
    /\ state = IF isChromeAvailable THEN InitialState ELSE LoadedState(InitialState, store)
    /\ activeTab = IF isChromeAvailable THEN "dashboard" ELSE LoadedTab("dashboard", store)
    /\ rendered = View(InitialState)
    /\ insights = <<>>
    /\ saves = <<>>
    /\ ops = [p \in Slots |-> IdleOp]
    /\ analyses = 0
    /\ clock = 0
    /\ budget = 0
    /\ direct = NoDirect

(***************************************************************************)
(* Actions.                                                                *)
(***************************************************************************)
FreeSlots == {p \in Slots : ~InFlight(p)}
FreeSlot == CHOOSE p \in FreeSlots : \A q \in FreeSlots : p <= q

NewOp(kind) == [IdleOp EXCEPT !.kind = kind, !.cfg = rendered.config, !.id = budget + 1]

\* Busy without the guard: the handler never returns early.
BusyNever(view) == FALSE

\* if (state.isSyncing) return;
Busy(view) == view.isSyncing

\* Flushed when the next event still runs the handlers of the old render.
FlushedStale(st) == rendered

\* A click handler's updates are committed before the next event is
\* handled: the handlers of the next event see the state it left.
Flushed(st) == View(st)

\* performUpload is invoked (the handler of the last render).
PerformUpload ==
    /\ budget < MaxEvents
    /\ FreeSlots # {}
    /\ budget' = budget + 1
    /\ UNCHANGED <<isChromeAvailable, browser, insights, loading, remote, direct>>
    /\ IF Busy(rendered)
       THEN UNCHANGED <<state, rendered, activeTab, store, saves, ops, analyses, clock>>
       ELSE IF UploadPreCheck(rendered.config) # ""
       THEN /\ state' = AddLog(state, UploadPreCheck(rendered.config), "error")
            /\ activeTab' = "settings"
            /\ rendered' = Flushed(state')
            /\ UNCHANGED <<store, saves, ops, analyses, clock>>
       ELSE /\ Commit(UploadStart(Bundle(FreeSlot, NewOp("upload"))))
            /\ rendered' = Flushed(state')
            /\ UNCHANGED activeTab

\* performDownload is invoked (the handler of the last render).
PerformDownload ==
    /\ budget < MaxEvents
    /\ FreeSlots # {}
    /\ budget' = budget + 1
    /\ UNCHANGED <<isChromeAvailable, browser, insights, loading, remote, direct, activeTab>>
    /\ IF Busy(rendered)
       THEN UNCHANGED <<state, rendered, store, saves, ops, analyses, clock>>
       ELSE /\ Commit(DownloadStart(Bundle(FreeSlot, NewOp("download"))))
            /\ rendered' = Flushed(state')

\* What the accessor an operation awaits delivers: the browser's data.
Delivered(pc) ==
    CASE pc = "getBookmarks"  -> browser.bookmarks
      [] pc = "getExtensions" -> browser.extensions
      [] pc = "getHistory"    -> browser.history

AccessorPcs == {"getBookmarks", "getExtensions", "getHistory"}

\* The continuation of performUpload after the accessor it awaits resolved.
UploadAfterAccessor(w, list) ==
    CASE w.op.pc = "getBookmarks"  -> UploadExtensions([w EXCEPT !.op.bookmarks = list])
      [] w.op.pc = "getExtensions" -> UploadHistory([w EXCEPT !.op.extensions = list])
      [] w.op.pc = "getHistory"    -> UploadCallProvider([w EXCEPT !.op.history = list])

\* An accessor's callback delivers its list.
AccessorResolves(p) ==
    /\ ops[p].pc \in AccessorPcs
    /\ Commit(UploadAfterAccessor(Bundle(p, ops[p]), Delivered(ops[p].pc)))
    /\ UNCHANGED <<isChromeAvailable, browser, rendered, activeTab, insights, loading, remote,
                   budget, direct>>

\* chrome.management / chrome.history is missing: the accessor's promise rejects.
AccessorRejects(p) ==
    /\ ops[p].pc \in {"getExtensions", "getHistory"}
    /\ Commit(UploadCatch(Bundle(p, ops[p]), "Cannot read properties of undefined"))
    /\ UNCHANGED <<isChromeAvailable, browser, rendered, activeTab, insights, loading, remote,
                   budget, direct>>

\* The continuation of an operation after its provider's fetch settled.
AfterFetch(w, resp, saveThrows) ==
    IF w.op.kind = "upload"
    THEN LET ret == ProviderUploadFinish(w.op.cfg.provider, resp) IN
         IF ret.throws THEN UploadCatch(w, ret.msg)
         ELSE UploadAfterProvider(w, ret.value, saveThrows)
    ELSE LET ret == ProviderDownloadFinish(w.op.cfg.provider, resp) IN
         IF ret.throws THEN DownloadCatch(w, ret.msg)
         ELSE DownloadSucceed(w, ret.value[1])

\* The remote side answers the request of operation p (or the fetch fails).
FetchSettles(p) ==
    /\ ops[p].pc = "fetch"
    /\ \E answer \in Serve(ops[p].req[1], remote), saveThrows \in BOOLEAN :
         /\ answer[1].kind \in {"ok"} \cup AppFailKinds
         /\ remote' = answer[2]
         /\ Commit(AfterFetch(Bundle(p, ops[p]), answer[1], saveThrows))
    /\ UNCHANGED <<isChromeAvailable, browser, rendered, activeTab, insights, loading,
                   budget, direct>>

\* The oldest chrome.storage.local.set completes; its caller resumes.
SaveCompletes ==
    /\ saves # <<>>
    /\ LET head == Head(saves) IN
       IF head.by \in Slots
       THEN Commit(UploadSucceed([Bundle(head.by, ops[head.by])
                                    EXCEPT !.store = <<head.config>>,
                                           !.saves = Tail(saves)]))
       ELSE /\ store' = <<head.config>>
            /\ saves' = Tail(saves)
            /\ UNCHANGED <<state, ops, analyses, clock>>
    /\ UNCHANGED <<isChromeAvailable, browser, rendered, activeTab, insights, loading, remote,
                   budget, direct>>

\* The partial configs the settings form passes to handleConfigChange: the
\* provider buttons, the inputs of the selected provider (the Gist inputs
\* when the provider is GIST, the WebDAV inputs otherwise) and the three
\* scope toggles.
Patches(cfg) ==
    { [provider |-> IF cfg.provider = GIST THEN WEBDAV ELSE GIST],
      [syncBookmarks |-> ~cfg.syncBookmarks],
      [syncExtensions |-> ~cfg.syncExtensions],
      [syncHistory |-> ~cfg.syncHistory] }
    \cup
    (IF cfg.provider = GIST
     THEN { [gistToken |-> IF Falsy(cfg.gistToken) THEN "t" ELSE ""],
            [gistId |-> IF cfg.gistId = "g2" THEN "" ELSE "g2"] }
     ELSE { [webdavUrl |-> IF FalsyUrl(cfg.webdavUrl) THEN <<"k", "/">> ELSE <<>>] })

\* handleConfigChange(newConfig)
HandleConfigChange ==
    /\ budget < MaxEvents
    /\ budget' = budget + 1
    /\ \E newConfig \in Patches(rendered.config), saveThrows \in BOOLEAN :
         LET updated == Spread(rendered.config, newConfig) IN
         /\ state' = [state EXCEPT !.config = updated]
         /\ rendered' = Flushed(state')
         /\ IF isChromeAvailable
            THEN /\ saves' = Append(saves, [config |-> updated, by |-> 0])
                 /\ store' = store
            ELSE /\ saves' = saves
                 /\ store' = IF saveThrows THEN store ELSE <<updated>>
    /\ ops' = [p \in Slots |-> IF InFlight(p) THEN [ops[p] EXCEPT !.touched = TRUE]
                                ELSE ops[p]]
    /\ UNCHANGED <<isChromeAvailable, browser, activeTab, insights, loading, analyses, remote,
                   clock, direct>>

\* chrome.storage.local.get delivers: the startup effect continues.
LoadDelivers ==
    /\ loading
    /\ loading' = FALSE
    /\ state' = LoadedState(state, store)
    /\ activeTab' = LoadedTab(activeTab, store)
    /\ ops' = [p \in Slots |-> IF InFlight(p) /\ store # <<>>
                                THEN [ops[p] EXCEPT !.touched = TRUE] ELSE ops[p]]
    /\ UNCHANGED <<isChromeAvailable, browser, rendered, insights, store, saves, analyses,
                   remote, clock, budget, direct>>

\* React commits the updates made outside an event handler.
Render ==
    /\ rendered # View(state)
    /\ rendered' = View(state)
    /\ UNCHANGED <<isChromeAvailable, browser, state, activeTab, insights, store, saves, loading,
                   ops, analyses, remote, clock, budget, direct>>

\* A trend analysis settles: with a result, or with null after a failure.
AnalysisSettles ==
    /\ analyses > 0
    /\ analyses' = analyses - 1
    /\ \E res \in {<<>>, <<[summary |-> "s", recommendations |-> <<"r">>]>>} :
         insights' = IF res # <<>> THEN res ELSE insights
    /\ UNCHANGED <<isChromeAvailable, browser, state, rendered, activeTab, store, saves, loading,
                   ops, remote, clock, budget, direct>>

(***************************************************************************)
(* Direct provider calls: a caller that holds a provider instance calls    *)
(* upload / download with a config and a Snapshot of its choice.           *)
(***************************************************************************)
DirectConfigs ==
    { WithFields([gistToken |-> t, gistId |-> g]) :
        t \in {Undefined, "", "t"}, g \in {Undefined, "g1"} }
    \cup
    { WithFields([gistToken |-> "t", gistId |-> g]) : g \in {"", "g2"} }
    \cup
    { WithFields([provider |-> WEBDAV, webdavUrl |-> u]) :
        u \in {NoUrl, <<>>, <<"h">>, <<"h", "/">>} }

DirectSnapshots ==
    { [lastUpdated |-> ISOString(t), version |-> "1.0.0",
       bookmarks |-> Records("bookmark", n[1]), extensions |-> Records("extension", n[2]),
       history |-> Records("visit", n[3])] :
        t \in {1}, n \in {<<0, 0, 0>>, <<MaxItems, 0, MaxItems>>} }

DirectInit ==
    /\ isChromeAvailable = TRUE
    /\ browser = [bookmarks |-> <<>>, extensions |-> <<>>, history |-> <<>>]
    /\ store = <<>>
    /\ remote \in InitRemotes
    /\ loading = FALSE
    /\ state = InitialState
    /\ activeTab = "dashboard"
    /\ rendered = View(InitialState)
    /\ insights = <<>>
    /\ saves = <<>>
    /\ ops = [p \in Slots |-> IdleOp]
    /\ analyses = 0
    /\ clock = 0
    /\ budget = 0
    /\ direct = NoDirect

AppUnchanged ==
    UNCHANGED <<isChromeAvailable, browser, state, rendered, activeTab, insights, store,
                saves, loading, ops, analyses, clock, budget>>

\* The record of a completed call (resp: the kind of response a Gist request
\* got, whose body GistProvider may read; "none" for a call that issued no
\* request and for WebDAV, which looks at the status only).
Completed(call, ret, rem) ==
    [method |-> call.method, prov |-> call.prov, config |-> call.config,
     data |-> call.data, calls |-> call.calls, resp |-> call.resp, ret |-> ret,
     after |-> rem]

\* A provider method is entered: it throws at once or suspends on its fetch.
DirectEnter(method, prov, config, data, started) ==
    LET call == [pc |-> "fetch", method |-> method, prov |-> prov, config |-> config,
                 data |-> data, req |-> started.req, calls |-> started.req,
                 resp |-> "none"]
    IN /\ direct.call.pc = "idle"
       /\ Len(direct.done) < MaxDirectCalls
       /\ IF started.throws
          THEN direct' = [call |-> NoCall,
                          done |-> Append(direct.done,
                                          Completed([call EXCEPT !.pc = "idle"],
                                                    Failed(started.msg), remote))]
          ELSE direct' = [direct EXCEPT !.call = call]
       /\ remote' = remote
       /\ AppUnchanged

\* provider.upload(config, data) is called.
DirectUpload ==
    \E prov \in {GIST, WEBDAV}, config \in DirectConfigs, data \in DirectSnapshots :
        /\ config.provider = prov
        /\ DirectEnter("upload", prov, config, <<data>>,
                       ProviderUploadStart(GetProvider(prov).prov, config, data))

\* provider.download(config) is called.
DirectDownload ==
    \E prov \in {GIST, WEBDAV}, config \in DirectConfigs :
        /\ config.provider = prov
        /\ DirectEnter("download", prov, config, <<>>,
                       ProviderDownloadStart(GetProvider(prov).prov, config))

\* The remote side answers the direct call's request (or the fetch fails).
DirectFetchSettles ==
    /\ direct.call.pc = "fetch"
    /\ \E answer \in Serve(direct.call.req[1], remote) :
         LET call == direct.call
             ret == IF call.method = "upload"
                    THEN ProviderUploadFinish(call.prov, answer[1])
                    ELSE ProviderDownloadFinish(call.prov, answer[1])
         IN /\ remote' = answer[2]
            /\ direct' = [call |-> NoCall,
                          done |-> Append(direct.done,
                                          Completed([call EXCEPT !.resp = IF call.prov = GIST
                                                                          THEN answer[1].kind
                                                                          ELSE "none"],
                                                    ret, answer[2]))]
    /\ AppUnchanged

DirectNext ==
    \/ DirectUpload
    \/ DirectDownload
    \/ DirectFetchSettles

ProviderSpec == DirectInit /\ [][DirectNext]_vars

(***************************************************************************)
(* The log on its own: addLog called on a log that earlier operations have *)
(* filled to a given length.                                               *)
(***************************************************************************)
\* The log after n downloads' success entries, the newest first.
FilledLog(n) ==
    [i \in 1..n |-> [type |-> "success",
                     message |-> "Download successful! Last Update: "
                                 \o LocaleString(n - i + 1)]]

\* Lengths around the capacity, and the short ones.
LogFills == {0, 1, LogCapacity - 2, LogCapacity - 1, LogCapacity}

\* The (message, type) pairs addLog is called with.
LogCalls ==
    { <<"Initiating manual upload...", "info">>,
      <<"Upload successful!", "success">>,
      <<"Upload failed: Failed to fetch", "error">> }

LogInit ==
    /\ isChromeAvailable = TRUE
    /\ browser = NoBrowserData
    /\ store = <<>>
    /\ remote = EmptyRemote
    /\ loading = FALSE
    /\ state \in {[InitialState EXCEPT !.logs = FilledLog(n)] : n \in LogFills}
    /\ activeTab = "dashboard"
    /\ rendered = View(InitialState)
    /\ insights = <<>>
    /\ saves = <<>>
    /\ ops = [p \in Slots |-> IdleOp]
    /\ analyses = 0
    /\ clock = 0
    /\ budget = 0
    /\ direct = NoDirect

\* addLog(message, type)
AddLogCalled ==
    /\ budget < MaxLogCalls
    /\ budget' = budget + 1
    /\ \E call \in LogCalls : state' = AddLog(state, call[1], call[2])
    /\ UNCHANGED <<isChromeAvailable, browser, rendered, activeTab, insights, store, saves,
                   loading, ops, analyses, remote, clock, direct>>

LogNext == AddLogCalled

LogSpec == LogInit /\ [][LogNext]_vars

Next ==
    \/ PerformUpload
    \/ PerformDownload
    \/ \E p \in Slots : AccessorResolves(p)
    \/ \E p \in Slots : AccessorRejects(p)
    \/ \E p \in Slots : FetchSettles(p)
    \/ SaveCompletes
    \/ HandleConfigChange
    \/ LoadDelivers
    \/ Render
    \/ AnalysisSettles

Spec == Init /\ [][Next]_vars


(***************************************************************************)
(* The application with every awaited step settling: an accessor delivers  *)
(* or rejects, a fetch settles, a storage write completes, and React       *)
(* commits pending updates.                                                *)
(***************************************************************************)
FairSpec ==
    /\ Spec
    /\ WF_vars(\E p \in Slots : AccessorResolves(p) \/ AccessorRejects(p))
    /\ WF_vars(\E p \in Slots : FetchSettles(p))
    /\ WF_vars(SaveCompletes)
    /\ WF_vars(Render)

(***************************************************************************)
(* Properties.                                                             *)
(***************************************************************************)
UploadInFlight == \E p \in Slots : InFlight(p) /\ ops[p].kind = "upload"
DownloadInFlight == \E p \in Slots : InFlight(p) /\ ops[p].kind = "download"

\* C1: an invocation of performUpload made while an earlier performUpload
\* is in flight is a no-op: it calls no accessor, issues no request, adds
\* no log entry and changes neither the state, the Config Store nor the
\* remote side.
C1_BusyUploadIsNoOp ==
    [][(UploadInFlight /\ PerformUpload)
         => UNCHANGED <<state, rendered, activeTab, insights, store, saves, loading, ops,
                        analyses, remote, clock>>]_vars

\* C1 witness: an upload is in flight and a second invocation has been
\* made that left no trace (one log entry, the config as captured).
C1_Witness ==
    \E p \in Slots :
        /\ InFlight(p) /\ ops[p].kind = "upload"
        /\ budget = 2
        /\ ~loading
        /\ Len(state.logs) = 1
        /\ state.config = ops[p].cfg
        /\ \A q \in Slots \ {p} : ops[q].pc = "idle"

\* C2: at most one operation, upload or download, is in flight; so no two
\* provider calls overlap.
C2_MutualExclusion ==
    /\ Cardinality({p \in Slots : InFlight(p)}) <= 1
    /\ Cardinality({p \in Slots : ops[p].pc = "fetch"}) <= 1
    /\ ~(UploadInFlight /\ DownloadInFlight)

\* C2 witness: a download awaits its provider call and a second sync
\* invocation has been made meanwhile without starting anything.
C2_Witness ==
    \E p \in Slots :
        /\ ops[p].pc = "fetch" /\ ops[p].kind = "download"
        /\ budget = 2
        /\ ~loading
        /\ Len(state.logs) = 1
        /\ state.config = ops[p].cfg
        /\ \A q \in Slots \ {p} : ops[q].pc = "idle"

\* C3: every operation that set the busy flag clears it again, however its
\* steps end; with no operation in flight the flag is false, and the flag
\* is true while one is.
C3_BusyFlagClears ==
    /\ [](AnyInFlight <=> state.isSyncing)
    /\ (AnyInFlight ~> (~AnyInFlight /\ ~state.isSyncing))

\* C3 witness: an upload has ended in its catch block and the flag is false.
C3_Witness ==
    \E p \in Slots :
        /\ ops[p].pc = "done" /\ ops[p].kind = "upload" /\ ops[p].outcome = "error"
        /\ ~state.isSyncing

\* The precondition of a Gist call that the config violates, if any.
GistPreconditionViolated(method, config) ==
    \/ Falsy(config.gistToken)
    \/ method = "download" /\ Falsy(config.gistId)

GistValidationError(method) ==
    IF method = "upload" THEN "Gist Token is required"
    ELSE "Gist Token and ID are required for download"

\* C4: GistProvider.upload without a token, and GistProvider.download
\* without a token or without a gistId, fail with the validation error and
\* issue no request.
C4_GistValidation ==
    /\ \A i \in DOMAIN direct.done :
         LET c == direct.done[i] IN
         (c.prov = GIST /\ GistPreconditionViolated(c.method, c.config))
           => /\ c.calls = <<>>
              /\ c.ret.throws
              /\ c.ret.msg = GistValidationError(c.method)
    /\ (direct.call.pc = "fetch" /\ direct.call.prov = GIST)
         => ~GistPreconditionViolated(direct.call.method, direct.call.config)

\* C4 witness: an upload without a token and a download with a token but
\* without a gistId have both been rejected.
C4_Witness ==
    \E i, j \in DOMAIN direct.done :
        /\ direct.done[i].prov = GIST /\ direct.done[i].method = "upload"
        /\ Falsy(direct.done[i].config.gistToken)
        /\ direct.done[i].ret.throws
        /\ direct.done[j].prov = GIST /\ direct.done[j].method = "download"
        /\ direct.done[j].config.gistToken = "t"
        /\ Falsy(direct.done[j].config.gistId)
        /\ direct.done[j].ret.throws

\* C5: WebDAVProvider.upload and WebDAVProvider.download without a
\* webdavUrl fail with the validation error and issue no request.
C5_WebDAVValidation ==
    /\ \A i \in DOMAIN direct.done :
         LET c == direct.done[i] IN
         (c.prov = WEBDAV /\ FalsyUrl(c.config.webdavUrl))
           => /\ c.calls = <<>>
              /\ c.ret.throws
              /\ c.ret.msg = "WebDAV URL is required"
    /\ (direct.call.pc = "fetch" /\ direct.call.prov = WEBDAV)
         => ~FalsyUrl(direct.call.config.webdavUrl)

\* C5 witness: an upload and a download without a webdavUrl have both
\* been rejected.
C5_Witness ==
    \E i, j \in DOMAIN direct.done :
        /\ direct.done[i].prov = WEBDAV /\ direct.done[i].method = "upload"
        /\ FalsyUrl(direct.done[i].config.webdavUrl)
        /\ direct.done[i].ret.throws
        /\ direct.done[j].prov = WEBDAV /\ direct.done[j].method = "download"
        /\ FalsyUrl(direct.done[j].config.webdavUrl)
        /\ direct.done[j].ret.throws

CreatePath(op) == op.kind = "upload" /\ op.cfg.provider = GIST /\ Falsy(op.cfg.gistId)
UpdatePath(op) == op.kind = "upload" /\ op.cfg.provider = GIST /\ ~Falsy(op.cfg.gistId)
ExistingGists(rem) == {g \in GistIds : rem.gists[g] # <<>>}

C7_GistUpdatePath ==
    [][\A p \in Slots :
         LET op == ops'[p] IN
         UpdatePath(op) =>
           /\ Len(op.calls) <= 1
           /\ \A i \in DOMAIN op.calls :
                /\ op.calls[i].method = "PATCH"
                /\ op.calls[i].url = <<"api.github.com", "gists", op.cfg.gistId>>
           /\ (ops[p].pc = "fetch" /\ op.pc # "fetch") =>
                /\ ExistingGists(remote') = ExistingGists(remote)
                /\ op.result # <<>> => op.result[1] = op.cfg.gistId
                /\ op.pc = "done"
                /\ state'.config = state.config
                /\ store' = store
                /\ saves' = saves
      ]_vars

\* C7 witness: an update-path upload addressed by g1 has succeeded, returned
\* g1, and the config's gistId is g1.
C7_Witness ==
    \E p \in Slots :
        /\ ops[p].pc = "done" /\ UpdatePath(ops[p]) /\ ops[p].outcome = "success"
        /\ ops[p].cfg.gistId = "g1"
        /\ ops[p].calls[1].method = "PATCH"
        /\ ops[p].result = <<"g1">>
        /\ state.config.gistId = "g1"

\* What an accessor returns: the browser's data, or the placeholder record
\* without the host API.
AccessorReturns(name) ==
    CASE name = "getBookmarks"  ->
           IF isChromeAvailable THEN browser.bookmarks ELSE <<MockBookmark>>
      [] name = "getExtensions" ->
           IF isChromeAvailable THEN browser.extensions ELSE <<MockExtension>>
      [] name = "getHistory"    ->
           IF isChromeAvailable THEN browser.history ELSE <<MockHistory>>

\* The Snapshot a request carries.
Carried(req) ==
    IF req.method = "PUT" THEN JSONParse(req.body[1])
    ELSE JSONParse(req.body[1].files[SyncFile])

\* C8: the Snapshot performUpload hands to provider.upload has the three
\* collections; a collection whose flag is false is empty and its accessor
\* was not called, a collection whose flag is true is what its accessor
\* returned; and the payload sent carries that Snapshot.
C8_SnapshotCollections ==
    \A p \in Slots :
        LET op == ops[p] IN
        op.kind = "upload" =>
          /\ ("getBookmarks" \in op.accessed) => op.cfg.syncBookmarks
          /\ ("getExtensions" \in op.accessed) => op.cfg.syncExtensions
          /\ ("getHistory" \in op.accessed) => op.cfg.syncHistory
          /\ op.data # <<>> =>
               LET d == op.data[1] IN
               /\ {"bookmarks", "extensions", "history"} \subseteq DOMAIN d
               /\ d.bookmarks = IF op.cfg.syncBookmarks
                                THEN AccessorReturns("getBookmarks") ELSE <<>>
               /\ d.extensions = IF op.cfg.syncExtensions
                                 THEN AccessorReturns("getExtensions") ELSE <<>>
               /\ d.history = IF op.cfg.syncHistory
                              THEN AccessorReturns("getHistory") ELSE <<>>
               /\ ("getBookmarks" \in op.accessed) = op.cfg.syncBookmarks
               /\ ("getExtensions" \in op.accessed) = op.cfg.syncExtensions
               /\ ("getHistory" \in op.accessed) = op.cfg.syncHistory
               /\ \A i \in DOMAIN op.calls :
                    /\ Carried(op.calls[i]).ok
                    /\ Carried(op.calls[i]).val = d

\* C8 witness: a Snapshot was handed over with the bookmarks flag false and
\* the history flag true while the browser holds bookmarks and history.
C8_Witness ==
    \E p \in Slots :
        /\ ops[p].kind = "upload" /\ ops[p].data # <<>> /\ Len(ops[p].calls) = 1
        /\ ~ops[p].cfg.syncBookmarks /\ ops[p].cfg.syncHistory
        /\ isChromeAvailable /\ browser.bookmarks # <<>>
        /\ ops[p].data[1].bookmarks = <<>>
        /\ ops[p].data[1].history = browser.history
        /\ ops[p].data[1].history # <<>>

\* C8 witness for all flags false: every collection is the empty sequence.
C8_WitnessAllOff ==
    \E p \in Slots :
        /\ ops[p].kind = "upload" /\ ops[p].data # <<>>
        /\ ~ops[p].cfg.syncBookmarks /\ ~ops[p].cfg.syncExtensions /\ ~ops[p].cfg.syncHistory
        /\ ops[p].accessed = {}

TransportErrors == {"Failed to fetch", "Failed to download from Gist"}

\* C9: when GistProvider.upload has written Snapshot S and returned
\* identifier X, a GistProvider.download addressed by X that gets an answer
\* returns a value equal to S in lastUpdated, version, bookmarks,
\* extensions and history.
C9_GistRoundTrip ==
    \A i \in DOMAIN direct.done :
        (i + 1) \in DOMAIN direct.done =>
          LET u == direct.done[i]
              d == direct.done[i + 1]
          IN (/\ u.prov = GIST /\ u.method = "upload" /\ ~u.ret.throws
              /\ d.prov = GIST /\ d.method = "download"
              /\ ~Falsy(d.config.gistToken)
              /\ d.config.gistId = u.ret.value[1])
             => IF d.ret.throws THEN d.ret.msg \in TransportErrors
                ELSE LET got == d.ret.value[1]
                         sent == u.data[1]
                     IN /\ DOMAIN got = DOMAIN sent
                        /\ got.lastUpdated = sent.lastUpdated
                        /\ got.version = sent.version
                        /\ got.bookmarks = sent.bookmarks
                        /\ got.extensions = sent.extensions
                        /\ got.history = sent.history

\* C9 witness: a Snapshot with history was uploaded to a new gist and read
\* back from it.
C9_Witness ==
    \E i \in DOMAIN direct.done :
        /\ (i + 1) \in DOMAIN direct.done
        /\ direct.done[i].prov = GIST /\ direct.done[i].method = "upload"
        /\ ~direct.done[i].ret.throws
        /\ direct.done[i].calls[1].method = "POST"
        /\ direct.done[i].data[1].history # <<>>
        /\ direct.done[i + 1].prov = GIST /\ direct.done[i + 1].method = "download"
        /\ direct.done[i + 1].config.gistId = direct.done[i].ret.value[1]
        /\ ~direct.done[i + 1].ret.throws
        /\ direct.done[i + 1].ret.value[1] = direct.done[i].data[1]

\* C10: a second WebDAVProvider.upload with the config and Snapshot of a
\* first one that returned leaves the remote side as the first call left
\* it: one file, at the URL derived from the config, holding the Snapshot.
C10_WebDAVIdempotent ==
    \A i \in DOMAIN direct.done :
        (i + 1) \in DOMAIN direct.done =>
          LET a == direct.done[i]
              b == direct.done[i + 1]
          IN (/\ a.prov = WEBDAV /\ a.method = "upload" /\ ~a.ret.throws
              /\ b.prov = WEBDAV /\ b.method = "upload"
              /\ b.config = a.config /\ b.data = a.data)
             => /\ b.after.dav = a.after.dav
                /\ b.after.gists = a.after.gists
                /\ GetUrl(a.config) \in DOMAIN a.after.dav
                /\ a.after.dav[GetUrl(a.config)] = JSONStringify(a.data[1], FALSE)
                /\ Len(b.calls) = 1
                /\ b.calls[1].method = "PUT"
                /\ b.calls[1].url = a.calls[1].url

\* C10 witness: the same Snapshot was uploaded twice with the same config
\* and both calls returned.
C10_Witness ==
    \E i \in DOMAIN direct.done :
        /\ (i + 1) \in DOMAIN direct.done
        /\ direct.done[i].prov = WEBDAV /\ direct.done[i].method = "upload"
        /\ ~direct.done[i].ret.throws
        /\ direct.done[i + 1].prov = WEBDAV /\ direct.done[i + 1].method = "upload"
        /\ ~direct.done[i + 1].ret.throws
        /\ direct.done[i + 1].config = direct.done[i].config
        /\ direct.done[i + 1].data = direct.done[i].data
        /\ direct.done[i].data[1].history # <<>>

\* Operation p ends in this step (one that began in it included).
Completes(p) == ops'[p].pc = "done" /\ (InFlight(p) \/ ops'[p].id # ops[p].id)

\* The log entries this step adds, newest first.
NewEntries == SubSeq(state'.logs, 1, Len(state'.logs) - Len(state.logs))

\* The step only adds entries in front of the log.
LogGrows ==
    /\ Len(state'.logs) >= Len(state.logs)
    /\ SubSeq(state'.logs, Len(state'.logs) - Len(state.logs) + 1, Len(state'.logs))
         = state.logs

ErrorEntries(entries) == {i \in DOMAIN entries : entries[i].type = "error"}

\* C11: when an accessor, the provider's upload call or the config save
\* throws during performUpload, the newest log entry is tagged error and
\* carries the failure message, and lastSyncTime is left as it was; only an
\* upload that ends in success changes lastSyncTime.
C11_FailedUploadKeepsLastSync ==
    [][/\ \A p \in Slots :
            (Completes(p) /\ ops'[p].kind = "upload" /\ ops'[p].outcome = "error") =>
              /\ state'.lastSyncTime = state.lastSyncTime
              /\ ops'[p].error # ""
              /\ LogGrows
              /\ NewEntries # <<>>
              /\ Head(state'.logs) = [type |-> "error",
                                      message |-> "Upload failed: " \o ops'[p].error]
       /\ \A p \in Slots :
            (ops[p].pc \in AccessorPcs /\ ops'[p].pc = "done") =>
              ops'[p].outcome = "error"
       /\ \A p \in Slots :
            (Completes(p) /\ ops'[p].kind = "upload" /\ ops'[p].result # <<>>
             /\ ops'[p].outcome = "error") =>
              ops'[p].error = "QuotaExceededError"
       /\ (state'.lastSyncTime # state.lastSyncTime) =>
            \E p \in Slots : /\ Completes(p) /\ ops'[p].kind = "upload"
                             /\ ops'[p].outcome = "success"
      ]_vars

\* C11 witness: after an upload that succeeded, an upload failed in its
\* provider call and lastSyncTime still holds the first upload's time.
C11_Witness ==
    \E p \in Slots :
        /\ ops[p].kind = "upload" /\ ops[p].pc = "done" /\ ops[p].outcome = "error"
        /\ ops[p].calls # <<>>
        /\ state.lastSyncTime # NoTime
        /\ Head(state.logs).type = "error"
        /\ ~state.isSyncing

\* C12: every performUpload either fully succeeds (the provider call
\* succeeded, a newly returned identifier is in the config in memory and in
\* the Config Store, success is logged) or is reported failed, and the step
\* in which it is reported failed leaves the config unchanged in memory and
\* in the Config Store.
C12_NoPartialSuccess ==
    [][\A p \in Slots :
         (Completes(p) /\ ops'[p].kind = "upload") =>
           \/ /\ ops'[p].outcome = "success"
              /\ ops'[p].calls # <<>>
              /\ Head(state'.logs) = [type |-> "success", message |-> "Upload successful!"]
              /\ (ops'[p].result # <<>> /\ ops'[p].result[1] # ops'[p].cfg.gistId) =>
                   (store' # <<>> /\ store'[1].gistId = ops'[p].result[1])
           \/ /\ ops'[p].outcome = "error"
              /\ Head(state'.logs).type = "error"
              /\ state'.config = state.config
              /\ store' = store
      ]_vars

\* The messages of the errors an operation can catch, by where they are thrown.
AccessorErrors == {"Cannot read properties of undefined"}
GetProviderErrors == {"Provider not implemented"}
ProviderErrors ==
    {"Gist Token is required", "Gist Token and ID are required for download",
     "WebDAV URL is required", "Failed to fetch", "Bad credentials", "Unexpected token",
     "Failed to upload to Gist", "Failed to download from Gist",
     "Sync data file not found in Gist",
     "WebDAV Upload Failed: Error", "WebDAV Download Failed: Error"}
SaveErrors == {"QuotaExceededError"}

CatchPrefix(kind) == IF kind = "upload" THEN "Upload failed: " ELSE "Download failed: "

\* The step is the pre-check of performUpload refusing to start.
PreCheckAborts == budget' # budget /\ ops' = ops /\ state'.logs # state.logs

\* C13: whatever an accessor, getProvider or a provider's upload / download
\* throws, performUpload / performDownload runs to its end without throwing:
\* the step that ends it adds exactly one error entry, "<Upload|Download>
\* failed: " followed by the failure's message, and leaves the busy flag
\* clear; no other step of an operation adds an error entry.
C13_ErrorsStopAtOrchestrator ==
    [][/\ \A p \in Slots :
            /\ ops'[p].pc \in {"idle", "fetch", "save", "done"} \cup AccessorPcs
            /\ ops'[p].pc = "done" => ops'[p].outcome \in {"success", "error"}
            /\ (Completes(p) /\ ops'[p].outcome = "error") =>
                 /\ ops'[p].error \in AccessorErrors \cup GetProviderErrors
                                       \cup ProviderErrors \cup SaveErrors
                 /\ LogGrows
                 /\ Cardinality(ErrorEntries(NewEntries)) = 1
                 /\ Head(state'.logs) =
                      [type |-> "error", message |-> CatchPrefix(ops'[p].kind) \o ops'[p].error]
                 /\ ~state'.isSyncing
       /\ LogGrows
       /\ Cardinality(ErrorEntries(NewEntries)) =
            Cardinality({p \in Slots : Completes(p) /\ ops'[p].outcome = "error"})
            + (IF PreCheckAborts THEN 1 ELSE 0)
      ]_vars

\* A WebDAV download answered with a non-success status ended reported, the
\* busy flag clear.
C13_Witness ==
    \E p \in Slots :
      /\ ops[p].kind = "download" /\ ops[p].pc = "done" /\ ops[p].outcome = "error"
      /\ ops[p].error = "WebDAV Download Failed: Error"
      /\ Head(state.logs).message = "Download failed: WebDAV Download Failed: Error"
      /\ Cardinality(ErrorEntries(state.logs)) = 1
      /\ ~state.isSyncing

\* The step is one of performDownload run p: its start, or its continuation
\* after provider.download settled.
DownloadStep(p) ==
    /\ ops'[p].kind = "download"
    /\ \/ ops'[p].id # ops[p].id
       \/ ops[p].kind = "download" /\ ops[p].pc = "fetch" /\ ops'[p].pc = "done"

RestoreSkipped == [type |-> "info", message |-> "Ready to restore. (Auto-restore skipped for safety)."]

\* C14: no step of performDownload changes the config (in memory or in the
\* Config Store), lastSyncTime, the browser's data, the insights or the remote
\* side: it changes the busy flag and adds log entries only; a successful
\* download ends with the entry that says restoring was skipped.
C14_DownloadAppliesNothing ==
    [][\A p \in Slots : DownloadStep(p) =>
         /\ state'.config = state.config
         /\ state'.lastSyncTime = state.lastSyncTime
         /\ store' = store /\ saves' = saves
         /\ browser' = browser /\ insights' = insights /\ analyses' = analyses
         /\ remote' = remote
         /\ LogGrows
         /\ (Completes(p) /\ ops'[p].outcome = "success") =>
              /\ Len(NewEntries) >= 2
              /\ Head(state'.logs) = RestoreSkipped
              /\ state'.logs[2].type = "success"
              /\ ErrorEntries(NewEntries) = {}
      ]_vars

\* A download returned a Snapshot whose collections differ from the browser's
\* and whose timestamp is not the last-sync time; the log ends with the
\* restore-skipped entry.
C14_Witness ==
    \E p \in Slots :
      /\ ops[p].kind = "download" /\ ops[p].pc = "done" /\ ops[p].outcome = "success"
      /\ ops[p].data # <<>>
      /\ "bookmarks" \in DOMAIN ops[p].data[1]
      /\ ops[p].data[1].bookmarks # browser.bookmarks
      /\ state.lastSyncTime = NoTime
      /\ Head(state.logs) = RestoreSkipped

\* C15: a trend analysis is started only by the step that ends an upload in
\* success, after the success was recorded and only when the run's history is
\* non-empty; an upload that ends in error starts none; the step in which an
\* analysis settles (result, null or failure) changes nothing but insights,
\* and insights change in no other step.
C15_AnalysisDecoupled ==
    [][/\ analyses' > analyses =>
            \E p \in Slots :
              /\ Completes(p) /\ ops'[p].kind = "upload" /\ ops'[p].outcome = "success"
              /\ Len(ops'[p].history) > 0
              /\ analyses' = analyses + 1
              /\ Head(state'.logs) = [type |-> "success", message |-> "Upload successful!"]
              /\ state'.lastSyncTime # NoTime
              /\ ~state'.isSyncing
       /\ \A p \in Slots : (Completes(p) /\ ops'[p].kind = "upload") =>
            (analyses' = analyses + 1) = (ops'[p].outcome = "success" /\ Len(ops'[p].history) > 0)
       /\ analyses' < analyses =>
            /\ analyses' = analyses - 1
            /\ UNCHANGED <<state, rendered, activeTab, store, saves, loading, ops, remote,
                           browser, clock, budget>>
       /\ insights' # insights => analyses' < analyses
      ]_vars

\* An upload ended in success and started an analysis; the analysis has
\* settled without a result; the upload's outcome stands.
C15_Witness ==
    \E p \in Slots :
      /\ ops[p].kind = "upload" /\ ops[p].pc = "done" /\ ops[p].outcome = "success"
      /\ ops[p].analysis /\ analyses = 0 /\ insights = <<>>
      /\ state.lastSyncTime # NoTime /\ ~state.isSyncing
      /\ ErrorEntries(state.logs) = {}

\* Nothing is pending: the startup load has delivered, no save is queued and
\* no operation is in flight.
Quiescent == ~loading /\ saves = <<>> /\ ~AnyInFlight

\* C16: in the extension (where a save always completes), once the pending
\* saves have completed, the config in the Config Store equals the config in
\* memory (a store that was never written goes with the default config in
\* memory).
C16_StoreEqualsMemory ==
    (isChromeAvailable /\ Quiescent) =>
        IF store = <<>> THEN state.config = DefaultConfig
        ELSE store[1] = state.config

\* The requests a Gist provider / a WebDAV provider issues for a config.
GistRequest(r) == r.url[1] = "api.github.com" /\ r.method \in {"POST", "PATCH", "GET"}
WebDAVRequest(r, cfg) ==
    r.url = GetUrl(cfg) /\ r.method \in {"PUT", "GET"} /\ r.auth = GetHeaders(cfg)

\* C17: getProvider maps GIST to the Gist provider and WEBDAV to the WebDAV
\* provider and fails with "Provider not implemented" on every other value:
\* an operation under a GIST config issues Gist requests only, one under a
\* WEBDAV config WebDAV requests only, and one under any other provider value
\* issues no request at all and ends reported with that message.
C17_GetProviderMapping ==
    /\ GetProvider(GIST) = [throws |-> FALSE, msg |-> "", prov |-> GIST]
    /\ GetProvider(WEBDAV) = [throws |-> FALSE, msg |-> "", prov |-> WEBDAV]
    /\ GetProvider(UnknownProvider).throws
    /\ GetProvider(UnknownProvider).msg = "Provider not implemented"
    /\ \A p \in Slots : ops[p].kind # "none" =>
         LET op == ops[p] IN
         /\ op.cfg.provider = GIST =>
              \A i \in DOMAIN op.calls : GistRequest(op.calls[i])
         /\ op.cfg.provider = WEBDAV =>
              \A i \in DOMAIN op.calls : WebDAVRequest(op.calls[i], op.cfg)
         /\ op.cfg.provider \notin {GIST, WEBDAV} =>
              /\ op.calls = <<>> /\ op.req = <<>> /\ op.result = <<>>
              /\ op.pc \in AccessorPcs \cup {"done"}
              /\ op.pc = "done" =>
                   /\ op.outcome = "error"
                   /\ op.error \in GetProviderErrors \cup AccessorErrors
                   /\ (op.kind = "download" \/ op.data # <<>>) =>
                        op.error = "Provider not implemented"
         /\ op.error = "Provider not implemented" => op.cfg.provider \notin {GIST, WEBDAV}

\* An upload under an unknown provider value read its collections, built the
\* Snapshot and ended on getProvider's error without a request.
C17_Witness ==
    \E p \in Slots :
      /\ ops[p].kind = "upload" /\ ops[p].pc = "done"
      /\ ops[p].cfg.provider = UnknownProvider
      /\ ops[p].data # <<>> /\ ops[p].calls = <<>>
      /\ ops[p].error = "Provider not implemented"
      /\ Head(state.logs).message = "Upload failed: Provider not implemented"

\* The credential the selected provider cannot do without is missing.
MissingCredential(cfg) ==
    \/ cfg.provider = GIST /\ Falsy(cfg.gistToken)
    \/ cfg.provider = WEBDAV /\ FalsyUrl(cfg.webdavUrl)

MissingCredentialEntry(cfg) ==
    [type |-> "error",
     message |-> IF cfg.provider = GIST THEN "Error: Gist Token is missing. Go to Settings."
                 ELSE "Error: WebDAV URL is missing. Go to Settings."]

\* C18: performUpload invoked when idle with the selected provider's
\* credential missing adds one error entry naming the credential and does
\* nothing else: the busy flag stays clear, no operation starts (no accessor
\* is read, no provider is called, no request is issued), and config,
\* lastSyncTime, the Config Store and the remote side are unchanged.
C18_UploadPreCheck ==
    [][(PerformUpload /\ ~rendered.isSyncing /\ MissingCredential(rendered.config)) =>
         /\ state'.logs = <<MissingCredentialEntry(rendered.config)>> \o state.logs
         /\ ~state.isSyncing /\ ~state'.isSyncing
         /\ ops' = ops
         /\ remote' = remote
         /\ state'.config = state.config
         /\ state'.lastSyncTime = state.lastSyncTime
         /\ store' = store /\ saves' = saves
         /\ analyses' = analyses /\ insights' = insights
      ]_vars

\* With WebDAV selected and no URL, an upload was asked for and refused:
\* the entry is logged and no operation has ever started.
C18_Witness ==
    /\ state.logs # <<>>
    /\ Head(state.logs).message = "Error: WebDAV URL is missing. Go to Settings."
    /\ state.config.provider = WEBDAV
    /\ \A p \in Slots : ops[p] = IdleOp
    /\ ~state.isSyncing
    /\ remote \in InitRemotes

\* C19: the log never holds more than LogCapacity entries; addLog puts the
\* new entry at the front and keeps the earlier entries in their order
\* behind it, dropping exactly the oldest one when the log was full.
C19_LogBounded ==
    /\ [](Len(state.logs) <= LogCapacity)
    /\ [][/\ \E call \in LogCalls :
               Head(state'.logs) = [type |-> call[2], message |-> call[1]]
          /\ Len(state'.logs) = Min(Len(state.logs) + 1, LogCapacity)
          /\ Tail(state'.logs) = SubSeq(state.logs, 1, Len(state'.logs) - 1)
          /\ Len(state.logs) = LogCapacity =>
               /\ Len(state'.logs) = LogCapacity
               /\ \A i \in 1..(LogCapacity - 1) : state'.logs[i + 1] = state.logs[i]
          /\ Len(state.logs) < LogCapacity => Tail(state'.logs) = state.logs
         ]_vars

\* A log one short of full took two entries: it is full, the oldest entry is
\* gone and the second oldest is now the last.
C19_Witness ==
    /\ Len(state.logs) = LogCapacity
    /\ budget = 2
    /\ state.logs[LogCapacity] = FilledLog(LogCapacity - 1)[LogCapacity - 2]
    /\ state.logs[1].type \in {"info", "error"}
    /\ state.logs[3] = FilledLog(LogCapacity - 1)[1]

\* The message GistProvider falls back to when the response carries none.
GistGenericMessage(method) ==
    IF method = "upload" THEN "Failed to upload to Gist" ELSE "Failed to download from Gist"

\* C20: a GistProvider.upload or GistProvider.download whose request got a
\* non-success response fails with the backend's message when the response
\* carries one and with the generic message otherwise, and has issued exactly
\* one request.
C20_GistFailurePolicy ==
    \A i \in DOMAIN direct.done :
      LET d == direct.done[i] IN
      (d.prov = GIST /\ d.resp \in {"msg", "nomsg", "nojson"}) =>
        /\ d.ret.throws
        /\ d.ret.msg = IF d.resp = "msg" THEN "Bad credentials"
                       ELSE GistGenericMessage(d.method)
        /\ Len(d.calls) = 1

UploadSuccessEntry == [type |-> "success", message |-> "Upload successful!"]

\* The provider returned an identifier that performUpload writes back.
NewIdentifier(op) ==
    /\ op.cfg.provider = GIST
    /\ op.result # <<>> /\ ~Falsy(op.result[1]) /\ op.result[1] # op.cfg.gistId

\* C21: within one performUpload the last-sync time is stamped and the
\* success entry is added only in the step that ends the run in success,
\* which comes after the provider's upload resolved (the run was awaiting its
\* fetch, or the save that follows it) and, when a new identifier was
\* returned, with the updated config in the Config Store (in the extension:
\* the run was awaiting that save); a run that reported success adds no
\* error entry, in that step or later.
C21_SuccessAfterWork ==
    [][/\ LogGrows
       /\ (state'.lastSyncTime # state.lastSyncTime
           \/ \E i \in DOMAIN NewEntries : NewEntries[i] = UploadSuccessEntry) =>
            \E p \in Slots :
              /\ Completes(p) /\ ops'[p].kind = "upload" /\ ops'[p].outcome = "success"
              /\ ops[p].pc \in {"fetch", "save"} /\ ops[p].id = ops'[p].id
              /\ Len(ops'[p].calls) = 1
              /\ NewEntries = <<UploadSuccessEntry>>
              /\ state'.lastSyncTime # NoTime
              /\ NewIdentifier(ops'[p]) =>
                   /\ store' = <<[ops'[p].cfg EXCEPT !.gistId = ops'[p].result[1]]>>
                   /\ isChromeAvailable => (ops[p].pc = "save" /\ Len(saves') < Len(saves))
              /\ ops[p].pc = "save" => NewIdentifier(ops'[p])
       /\ \A p \in Slots :
            (Completes(p) /\ ops'[p].kind = "upload" /\ ops'[p].outcome = "success") =>
              /\ Head(state'.logs) = UploadSuccessEntry
              /\ state'.lastSyncTime # NoTime
       /\ \A p \in Slots :
            (ops[p].outcome = "success" /\ ops'[p].id = ops[p].id) =>
              /\ ops'[p].outcome = "success" /\ ops'[p].pc = "done"
              /\ ops'[p].error = ""
      ]_vars

\* In the extension an upload created a gist: it reported success, the save
\* of the updated config has completed and the store holds the identifier.
C21_Witness ==
    /\ isChromeAvailable
    /\ \E p \in Slots :
         /\ ops[p].kind = "upload" /\ ops[p].pc = "done" /\ ops[p].outcome = "success"
         /\ NewIdentifier(ops[p])
         /\ store = <<[ops[p].cfg EXCEPT !.gistId = ops[p].result[1]]>>
         /\ Head(state.logs) = UploadSuccessEntry
         /\ state.lastSyncTime # NoTime
         /\ ErrorEntries(state.logs) = {}

\* The step in which upload run p, back from its provider, assigns a new gistId.
WritesBack(p) ==
    /\ ops[p].kind = "upload" /\ ops[p].pc = "fetch" /\ ops'[p].pc # "fetch"
    /\ ops'[p].id = ops[p].id
    /\ NewIdentifier(ops'[p])

\* The fields in which two configs differ.
ChangedFields(a, b) == {f \in DOMAIN a : a[f] # b[f]}

\* The step is a handleConfigChange that altered the config.
ConfigChanged == budget' # budget /\ state'.config # state.config /\ ops' = [p \in Slots |->
                    IF InFlight(p) THEN [ops[p] EXCEPT !.touched = TRUE] ELSE ops[p]]

\* C22: the step in which an upload assigns a new gistId changes no other
\* field of the config in memory, so a change handleConfigChange made while
\* the upload was suspended is still there, and what it saves is that config;
\* a handleConfigChange made on a current render changes the field it was
\* given and no other.
C22_ConfigChangesKept ==
    [][/\ \A p \in Slots : WritesBack(p) =>
            /\ state'.config = [state.config EXCEPT !.gistId = ops'[p].result[1]]
            /\ isChromeAvailable =>
                 (saves' # <<>> /\ saves'[Len(saves')].config = state'.config)
            /\ (~isChromeAvailable /\ store' # store) => store' = <<state'.config>>
       /\ (ConfigChanged /\ rendered.config = state.config) =>
            Cardinality(ChangedFields(state'.config, state.config)) = 1
      ]_vars

====
